---------------------------- MODULE Spec2Model ----------------------------
(***************************************************************************)
(* A model of the Databricks client layer of magpie-adk:                   *)
(*   mcp_servers/databricks/auth.py        (ServicePrincipalAuth)          *)
(*   mcp_servers/databricks/api/base.py    (BaseDatabricksClient)          *)
(*   mcp_servers/databricks/api/sql.py     (SQLClient)                     *)
(*   data_scientist_agent/mcp_client.py    (_call_mcp_tool, *_sync)        *)
(*                                                                         *)
(* Each part has its own specification over the shared variables:          *)
(*   SpecHttp    one client / tool call at a time through _make_request    *)
(*   SpecBridge  a *_sync wrapper called with and without a running loop   *)
(*   SpecAuth    coroutines of one event loop calling get_access_token     *)
(*   SpecThreads worker threads, each with its own loop, sharing `auth`    *)
(*   SpecSql     SQLClient.execute_statement and its wait loop             *)
(***************************************************************************)
EXTENDS Integers, Sequences, FiniteSets, TLC

VARIABLES
    \* ---- BaseDatabricksClient / _call_mcp_tool (SpecHttp)
    h_pc,          \* position of the call in progress
    h_call,        \* the call: [api, cluster_id, ctx]
    h_headers,     \* what get_authenticated_headers() gave this call
    h_transport,   \* what the session's request gave this call
    h_outcome,     \* what _make_request returned or raised
    h_seen,        \* <<cause, class>> of the exceptions direct callers received
    h_result,      \* what the caller of the api receives
    h_requests,    \* HTTP requests sent to the Databricks API by this call
    h_tokens,      \* token acquisitions attempted by this call
    h_session,     \* clusters_client._session: none / open / stale / closed
    h_own,         \* _session of a client instance the direct caller owns
    h_sent,        \* the headers the request of this call carried
    \* ---- *_sync wrappers (SpecBridge)
    b_pc,          \* per calling context: position inside the wrapper
    b_wrapper,     \* the wrapper under call
    b_outcome,     \* outcome of the underlying coroutine (and of preparing it)
    b_result,      \* per calling context: what the wrapper gave its caller
    b_pool,        \* per calling context: state of the ThreadPoolExecutor
    b_exc,         \* per calling context: the exception being handled
    b_nested,      \* per calling context: asyncio.run attempted under a running loop
    b_runs,        \* per calling context: times the coroutine was driven
    \* ---- ServicePrincipalAuth on one event loop (SpecAuth)
    a_pc,          \* per coroutine: position inside get_access_token
    a_token,       \* auth._access_token
    a_expires,     \* auth._token_expires_at
    a_holder,      \* the coroutine holding auth._token_lock (0: nobody)
    a_waiters,     \* the coroutines waiting for the lock, first come first
    a_now,         \* time.time()
    a_requests,    \* token requests sent to the identity provider so far
    a_call,        \* per coroutine: what its call in progress has done
    a_ret,         \* per coroutine: what its last call returned, and when
    \* ---- ServicePrincipalAuth under worker threads (SpecThreads)
    t_pc,          \* per thread: position inside get_access_token
    t_locked,      \* auth._token_lock._locked
    t_loop,        \* the event loop auth._token_lock is bound to (0: none yet)
    t_waiters,     \* auth._token_lock._waiters, by waiting thread
    t_token,       \* auth._access_token
    t_expires,     \* auth._token_expires_at
    t_requests,    \* token requests sent to the identity provider so far
    t_seen,        \* per thread: the (token, expiry) its validity test read
    t_ret,         \* per thread: what its call returned
    \* ---- SQLClient.execute_statement (SpecSql)
    q_pc,          \* position of the call in progress
    q_kind,        \* "execute_statement", "statement_wait" or "run"
    q_max,         \* max_wait_time of the wait
    q_log,         \* the endpoints requested by this call
    q_now,         \* asyncio.get_event_loop().time()
    q_start,       \* start_time of _wait_for_statement_completion
    q_submit,      \* the response to the POST
    q_last,        \* the response of the latest poll
    q_sent,        \* requests sent by this call
    q_polls,       \* poll GETs issued inside the loop
    q_final,       \* GETs issued after the loop was left by timeout
    q_ret,         \* what the call gave its caller
    q_result,      \* what the execute_sql tool made of it
    \* ---- set_table_context and execute_ddl (SpecContext)
    c_pc,          \* position inside set_table_context
    c_fields,      \* the comment made for each field mapping, in order ("": none)
    c_i,           \* field mappings gone through
    c_props,       \* the result of the SET TBLPROPERTIES statement
    c_attempts,    \* ALTER COLUMN ... COMMENT statements handed to execute_ddl
    c_failed,      \* those of them that execute_ddl reported an error for
    c_list,        \* what list_warehouses gave the latest execute_ddl
    c_call,        \* the requests of the latest execute_ddl, in order
    c_last,        \* what the latest execute_ddl returned
    c_ret,         \* what set_table_context returned
    \* ---- NotebooksClient.search_notebooks (SpecSearch)
    n_pc,          \* position of the call in progress
    n_query,       \* query
    n_max,         \* max_results
    n_root,        \* path_prefix or "/"
    n_listing,     \* the "objects" of the listing response
    n_requests,    \* listing requests sent by this call
    n_ret          \* what search_notebooks returned

httpVars   == <<h_pc, h_call, h_headers, h_transport, h_outcome, h_seen, h_result, h_requests, h_tokens, h_session, h_own, h_sent>>
bridgeVars == <<b_pc, b_wrapper, b_outcome, b_result, b_pool, b_exc, b_nested, b_runs>>
authVars   == <<a_pc, a_token, a_expires, a_holder, a_waiters, a_now, a_requests, a_call, a_ret>>
threadVars == <<t_pc, t_locked, t_loop, t_waiters, t_token, t_expires, t_requests, t_seen, t_ret>>
sqlVars    == <<q_result, q_pc, q_kind, q_max, q_log, q_now, q_start, q_submit, q_last, q_sent, q_polls, q_final, q_ret>>
ctxVars    == <<c_pc, c_fields, c_i, c_props, c_attempts, c_failed, c_list, c_call, c_last, c_ret>>
nbVars     == <<n_pc, n_query, n_max, n_root, n_listing, n_requests, n_ret>>
vars       == <<httpVars, bridgeVars, authVars, threadVars, sqlVars, ctxVars, nbVars>>

\* What the actions of one part leave alone.
nonHttp    == <<bridgeVars, authVars, threadVars, sqlVars, ctxVars, nbVars>>
nonBridge  == <<httpVars, authVars, threadVars, sqlVars, ctxVars, nbVars>>
nonAuth    == <<httpVars, bridgeVars, threadVars, sqlVars, ctxVars, nbVars>>
nonThread  == <<httpVars, bridgeVars, authVars, sqlVars, ctxVars, nbVars>>
nonSql     == <<httpVars, bridgeVars, authVars, threadVars, ctxVars, nbVars>>
nonCtx     == <<httpVars, bridgeVars, authVars, threadVars, sqlVars, nbVars>>
nonNb      == <<httpVars, bridgeVars, authVars, threadVars, sqlVars, ctxVars>>

-----------------------------------------------------------------------------
(* Python values.                                                          *)

\* Optional[...]: None, or the value in a one-element tuple.
None == <<>>
Some(x) == <<x>>

\* The empty dict {}.
EmptyMap == [k \in {} |-> ""]

\* dict.get(key, default)
Get(m, k, d) == IF k \in DOMAIN m THEN m[k] ELSE d

\* A decoded JSON value: a mapping, or something else (a list, a string).
Obj(m) == [shape |-> "object", map |-> m]
Arr == [shape |-> "array", map |-> EmptyMap]
NoValue == [shape |-> "none", map |-> EmptyMap]

\* An exception object: its class, str(exc), and the two attributes of
\* DatabricksAPIError (None for every other class).
Exc(cls, msg, code, data) ==
    [cls |-> cls, message |-> msg, status_code |-> code, response_data |-> data]

NoExc == Exc("", "", None, None)

\* The outcome of a call: a returned value or a raised exception.
Return(v) == [kind |-> "return", value |-> v, exc |-> NoExc]
Raise(e) == [kind |-> "raise", value |-> NoValue, exc |-> e]
Pending == [kind |-> "pending", value |-> NoValue, exc |-> NoExc]

\* ToolResult mappings.
Success(data) == [status |-> "success", data |-> data, error |-> ""]
Error(msg) == [status |-> "error", data |-> NoValue, error |-> msg]
NoResult == [status |-> "", data |-> NoValue, error |-> ""]

-----------------------------------------------------------------------------
(* HTTP responses as aiohttp presents them.                                *)

JSON_CT == "application/json"

\* A response body: its text, the value json.loads gives for that text
\* (NoValue when the text is not JSON) and the Content-Type it came with.
Body(text, parsed, ctype) == [text |-> text, parsed |-> parsed, ctype |-> ctype]

EmptyBody == Body("", NoValue, JSON_CT)
ForbiddenBody == Body("{\"message\": \"forbidden\"}", Obj([message |-> "forbidden"]), JSON_CT)
NoMessageBody == Body("{\"error_code\": \"BAD_REQUEST\"}", Obj([error_code |-> "BAD_REQUEST"]), JSON_CT)
ListBody == Body("[]", Arr, JSON_CT)
TextBody == Body("Bad Gateway", NoValue, "text/plain")
PlainJsonBody == Body("{\"message\": \"denied\"}", Obj([message |-> "denied"]), "text/plain")
ClustersBody == Body("{\"clusters\": [{\"cluster_id\": \"123\", \"state\": \"RUNNING\"}]}",
                     Obj([clusters |-> "[{cluster_id: 123, state: RUNNING}]"]), JSON_CT)

Bodies == {EmptyBody, ForbiddenBody, NoMessageBody, ListBody, TextBody, PlainJsonBody, ClustersBody}

HttpStatuses == {200, 204, 400, 403, 404, 500}

\* f"{response.status}"
StatusText(s) ==
    CASE s = 200 -> "200" [] s = 204 -> "204" [] s = 400 -> "400"
      [] s = 403 -> "403" [] s = 404 -> "404" [] s = 500 -> "500"
      [] OTHER -> "?"

\* What the session's request gives _make_request: a response, or an exception
\* raised while connecting, sending or waiting.
Response(status, body) == [kind |-> "response", status |-> status, body |-> body, exc |-> NoExc]
Failure(e) == [kind |-> "raise", status |-> 0, body |-> EmptyBody, exc |-> e]

\* Subclasses of aiohttp.ClientError.
ClientErrorClasses == {"ClientConnectorError", "ServerDisconnectedError"}

ConnectError == Exc("ClientConnectorError", "Cannot connect to host", None, None)
\* The session's total timeout raises asyncio.TimeoutError, whose str() is empty.
TimeoutError == Exc("TimeoutError", "", None, None)
\* A session used on another event loop than the one it was created on.
StaleLoopError == Exc("RuntimeError", "Timeout context manager should be used inside a task", None, None)

Transports ==
    {Response(s, b) : s \in HttpStatuses, b \in Bodies} \cup {Failure(ConnectError), Failure(TimeoutError)}

\* get_authenticated_headers(): the token, or the exception of get_access_token.
AuthFailure == Exc("Exception", "Token acquisition failed: 401", None, None)
HeaderOutcomes == {Return(Obj([Authorization |-> "Bearer t1"])), Raise(AuthFailure)}

\* aiohttp's response.json(): raises on a Content-Type other than
\* application/json and on text that is not JSON.
JsonOk_any_content_type(body) == body.parsed.shape # "none"

JsonOk(body) == body.ctype = JSON_CT /\ body.parsed.shape # "none"

\* base.py 86-110: the body of `async with session.request(...) as response`.
response_body(status, body) ==
    IF status >= 400
    THEN LET error_data ==
                 IF body.text = "" THEN Obj(EmptyMap)
                 ELSE IF JsonOk(body) THEN body.parsed
                 ELSE Obj([message |-> body.text])
         IN  IF error_data.shape # "object"
             THEN Raise(Exc("AttributeError", "'list' object has no attribute 'get'", None, None))
             ELSE Raise(Exc("DatabricksAPIError",
                            Get(error_data.map, "message", "HTTP " \o StatusText(status)),
                            Some(status), Some(error_data)))
    ELSE IF body.text = "" THEN Return(Obj(EmptyMap))
    ELSE IF JsonOk(body) THEN Return(body.parsed)
    ELSE Return(Obj([response |-> body.text]))

\* base.py 112-117: the two except clauses around the request. The
\* DatabricksAPIError raised at line 96 is raised inside the try, is no
\* aiohttp.ClientError, and so is caught by `except Exception`.
except_clauses(o) ==
    IF o.kind # "raise" THEN o
    ELSE IF o.exc.cls \in ClientErrorClasses
    THEN Raise(Exc("DatabricksAPIError", "HTTP client error: " \o o.exc.message, None, None))
    ELSE Raise(Exc("DatabricksAPIError", "Unexpected error: " \o o.exc.message, None, None))

\* _make_request with the headers fetched inside its try block.
_make_request_headers_in_try(headers, transport) ==
    except_clauses(IF headers.kind = "raise" THEN headers
                   ELSE IF transport.kind = "raise"
                   THEN Raise(transport.exc)
                   ELSE response_body(transport.status, transport.body))

\* base.py 72-117. The headers are fetched before the try: a failure of the
\* token provider propagates as it is.
_make_request(headers, transport) ==
    IF headers.kind = "raise" THEN headers
    ELSE except_clauses(IF transport.kind = "raise"
                        THEN Raise(transport.exc)
                        ELSE response_body(transport.status, transport.body))

-----------------------------------------------------------------------------
(* The *_sync wrappers of mcp_client.py.                                   *)

\* str.lower(), for the letters the messages of the model contain.
LowerChar(c) ==
    CASE c = "A" -> "a" [] c = "C" -> "c" [] c = "E" -> "e" [] c = "I" -> "i"
      [] c = "J" -> "j" [] c = "N" -> "n" [] c = "O" -> "o" [] c = "S" -> "s"
      [] c = "T" -> "t" [] c = "U" -> "u" [] OTHER -> c

RECURSIVE Lower(_)
Lower(s) == IF s = "" THEN "" ELSE LowerChar(SubSeq(s, 1, 1)) \o Lower(SubSeq(s, 2, Len(s)))

\* `t in s` for strings
Contains(s, t) == \E i \in 1..(Len(s) - Len(t) + 1) : SubSeq(s, i, i + Len(t) - 1) = t

\* error_handlers.py 162-194
create_user_friendly_error_message(msg) ==
    LET error_str == Lower(msg)
    IN  IF Contains(error_str, "unterminated string") \/ Contains(error_str, "json")
        THEN "There was an issue processing your request due to special characters in the descriptions."
        ELSE IF Contains(error_str, "column") /\ Contains(error_str, "comment")
        THEN "There was an issue setting column descriptions."
        ELSE IF Contains(error_str, "table") /\ Contains(error_str, "not found")
        THEN "The specified table was not found."
        ELSE "An error occurred: " \o msg \o ". Please try rephrasing your request or contact support if the issue persists."

\* The message set_table_context_sync gives for a json.JSONDecodeError (1010-1015).
JsonDecodeMessage == "There was an issue with special characters in your descriptions."

\* The wrappers: four of the many that share one body, and the one that differs.
PlainWrappers ==
    {"list_clusters_sync", "get_cluster_sync", "execute_sql_sync", "get_table_metadata_sync"}
Wrappers == PlainWrappers \cup {"set_table_context_sync"}

\* The two calling contexts: a thread with no running event loop, and a thread
\* whose event loop is running (the agent framework's asynchronous dispatch).
Contexts == {"plain", "in_loop"}

\* RuntimeError and its subclasses.
RuntimeErrorClasses == {"RuntimeError", "RecursionError"}

\* asyncio.get_running_loop() with no running loop.
NoLoopError == Exc("RuntimeError", "no running event loop", None, None)
\* asyncio.run() called on a thread whose loop is running.
NestedRunError == Exc("RuntimeError", "asyncio.run() cannot be called from a running event loop", None, None)

\* Exceptions a coroutine under a wrapper can end with.
CoroExceptions ==
    { Exc("DatabricksAPIError", "forbidden", Some(403), Some(Obj([message |-> "forbidden"]))),
      Exc("AttributeError", "'str' object has no attribute 'get'", None, None),
      Exc("RecursionError", "maximum recursion depth exceeded", None, None),
      Exc("RuntimeError", "Event loop is closed", None, None),
      Exc("JSONDecodeError", "Unterminated string starting at: line 1 column 5 (char 4)", None, None),
      Exc("Exception", "Table or view not found: t", None, None),
      Exc("Exception", "Invalid column comment", None, None) }

\* Exceptions of the lines before the coroutine is made (set_table_context_sync 997-1000).
PrepExceptions ==
    { Exc("ImportError", "attempted relative import with no known parent package", None, None),
      Exc("TypeError", "unhashable type", None, None) }

CoroOutcomes ==
    { Return(Success(Obj([clusters |-> "[]"]))), Return(Error("cluster_id is required")) }
    \cup { Raise(e) : e \in CoroExceptions }

\* What execute_ddl meets: how list_warehouses ended ("w1": a warehouse,
\* "none": an empty list, or the message of the exception it raised), how
\* execute_statement ended (the statement's state, or the message of the
\* exception it raised; "" when it was not called), and whether the rows
\* have a Table Properties row with magpie properties.
Ddl(wh, st, props) == [warehouses |-> wh, statement |-> st, props |-> props]
NoDdl == Ddl("", "", FALSE)
DdlFailures == {"Token acquisition failed: 401", "Unexpected error: forbidden"}
DdlOutcomes ==
    { Ddl(wh, "", FALSE) : wh \in {"none"} \cup DdlFailures }
    \cup { Ddl("w1", st, FALSE) : st \in {"FAILED"} \cup DdlFailures }
    \cup { Ddl("w1", "SUCCEEDED", p) : p \in BOOLEAN }

\* mcp_client.py 710-744
execute_ddl(d) ==
    IF d.warehouses \in DdlFailures THEN Error(d.warehouses)
    ELSE IF d.warehouses = "none" THEN Error("No warehouses available for DDL operations")
    ELSE IF d.statement \in DdlFailures THEN Error(d.statement)
    ELSE Success(Obj([state |-> d.statement]))

\* mcp_client.py 562-707: the metadata mapping starts as {"table_name": ...},
\* is filled from the rows when execute_ddl reported success, and is
\* returned under "success" on every path.
get_table_metadata(d) ==
    LET result == execute_ddl(d) IN
    IF result.status = "success" /\ d.props
    THEN Success(Obj([table_name |-> "t", has_magpie_context |-> "True"]))
    ELSE Success(Obj([table_name |-> "t"]))

\* What a call meets: the outcome of the preparation and of the coroutine.
BridgeOutcomes(w) ==
    IF w = "get_table_metadata_sync"
    THEN { [prep |-> Return(NoValue), coro |-> Return(get_table_metadata(d)), ddl |-> d] :
             d \in DdlOutcomes }
    ELSE { [prep |-> Return(NoValue), coro |-> o, ddl |-> NoDdl] : o \in CoroOutcomes }
         \cup IF w = "set_table_context_sync"
              THEN { [prep |-> Raise(e), coro |-> Pending, ddl |-> NoDdl] : e \in PrepExceptions }
              ELSE {}

\* A variant of the outer handler in which every wrapper reports str(e).
outer_handler_str_only(w, e) == Error(e.message)

\* The handler of the outer try: `except Exception as e` of the plain wrappers
\* (943-944), and the two handlers of set_table_context_sync (1010-1023).
\* Where the import at 997 failed, the import at 1019 fails again and the
\* bare except leaves str(e).
outer_handler(w, e) ==
    IF w \in PlainWrappers THEN Error(e.message)
    ELSE IF e.cls = "JSONDecodeError" THEN Error(JsonDecodeMessage)
    ELSE IF e.cls = "ImportError" THEN Error(e.message)
    ELSE Error(create_user_friendly_error_message(e.message))

\* `except RuntimeError:` of the inner try (940-942): whether it takes the exception.
inner_handler_takes(e) == e.cls \in RuntimeErrorClasses

\* An executor that is not used as a context manager.
executor_exit_leaves_pool(pool) == pool

\* mcp_client.py 937-939: leaving `with ThreadPoolExecutor() as executor:`,
\* by return or by exception, calls executor.shutdown(wait=True).
executor_exit(pool) == "shutdown"

BInit ==
    /\ b_pc = [c \in Contexts |-> "idle"]
    /\ b_wrapper = "list_clusters_sync"
    /\ b_outcome = [prep |-> Return(NoValue), coro |-> Pending, ddl |-> NoDdl]
    /\ b_result = [c \in Contexts |-> NoResult]
    /\ b_pool = [c \in Contexts |-> "none"]
    /\ b_exc = [c \in Contexts |-> NoExc]
    /\ b_nested = [c \in Contexts |-> FALSE]
    /\ b_runs = [c \in Contexts |-> 0]

\* The same wrapper is called in both contexts, and the underlying coroutine
\* ends the same way in both.
BCall ==
    /\ \A c \in Contexts : b_pc[c] = "idle"
    /\ \E w \in Wrappers : \E o \in BridgeOutcomes(w) :
          /\ b_wrapper' = w
          /\ b_outcome' = o
    /\ b_pc' = [c \in Contexts |-> "prepare"]
    /\ b_result' = [c \in Contexts |-> NoResult]
    /\ b_pool' = [c \in Contexts |-> "none"]
    /\ b_exc' = [c \in Contexts |-> NoExc]
    /\ b_nested' = [c \in Contexts |-> FALSE]
    /\ b_runs' = [c \in Contexts |-> 0]
    /\ UNCHANGED nonBridge

\* set_table_context_sync 997-1000; the plain wrappers have nothing before the try.
BPrepare(c) ==
    /\ b_pc[c] = "prepare"
    /\ IF b_outcome.prep.kind = "raise"
       THEN /\ b_exc' = [b_exc EXCEPT ![c] = b_outcome.prep.exc]
            /\ b_pc' = [b_pc EXCEPT ![c] = "outer_except"]
       ELSE /\ b_pc' = [b_pc EXCEPT ![c] = "get_loop"]
            /\ UNCHANGED b_exc
    /\ UNCHANGED <<b_wrapper, b_outcome, b_result, b_pool, b_nested, b_runs, nonBridge>>

\* loop = asyncio.get_running_loop(); with ThreadPoolExecutor() as executor:
BGetLoop(c) ==
    /\ b_pc[c] = "get_loop"
    /\ IF c = "in_loop"
       THEN /\ b_pool' = [b_pool EXCEPT ![c] = "open"]
            /\ b_pc' = [b_pc EXCEPT ![c] = "submit"]
            /\ UNCHANGED b_exc
       ELSE /\ b_exc' = [b_exc EXCEPT ![c] = NoLoopError]
            /\ b_pc' = [b_pc EXCEPT ![c] = "inner_except"]
            /\ UNCHANGED b_pool
    /\ UNCHANGED <<b_wrapper, b_outcome, b_result, b_nested, b_runs, nonBridge>>

\* future = executor.submit(asyncio.run, coro): a worker thread is started.
BSubmit(c) ==
    /\ b_pc[c] = "submit"
    /\ b_pool' = [b_pool EXCEPT ![c] = "running"]
    /\ b_pc' = [b_pc EXCEPT ![c] = "worker"]
    /\ UNCHANGED <<b_wrapper, b_outcome, b_result, b_exc, b_nested, b_runs, nonBridge>>

\* The worker thread drives the coroutine on a new loop of its own.
BWorker(c) ==
    /\ b_pc[c] = "worker"
    /\ b_runs' = [b_runs EXCEPT ![c] = @ + 1]
    /\ b_pool' = [b_pool EXCEPT ![c] = "finished"]
    /\ b_pc' = [b_pc EXCEPT ![c] = "future_result"]
    /\ UNCHANGED <<b_wrapper, b_outcome, b_result, b_exc, b_nested, nonBridge>>

\* return future.result(), leaving the with block (the pool is shut down).
BFutureResult(c) ==
    /\ b_pc[c] = "future_result"
    /\ b_pool' = [b_pool EXCEPT ![c] = executor_exit(b_pool[c])]
    /\ IF b_outcome.coro.kind = "return"
       THEN /\ b_result' = [b_result EXCEPT ![c] = b_outcome.coro.value]
            /\ b_pc' = [b_pc EXCEPT ![c] = "returned"]
            /\ UNCHANGED b_exc
       ELSE /\ b_exc' = [b_exc EXCEPT ![c] = b_outcome.coro.exc]
            /\ b_pc' = [b_pc EXCEPT ![c] = "inner_except"]
            /\ UNCHANGED b_result
    /\ UNCHANGED <<b_wrapper, b_outcome, b_nested, b_runs, nonBridge>>

\* except RuntimeError: return asyncio.run(coro)
BInnerExcept(c) ==
    /\ b_pc[c] = "inner_except"
    /\ IF ~inner_handler_takes(b_exc[c])
       THEN /\ b_pc' = [b_pc EXCEPT ![c] = "outer_except"]
            /\ UNCHANGED <<b_exc, b_result, b_nested, b_runs>>
       ELSE IF c = "in_loop"
       THEN \* asyncio.run refuses to run under the running loop
            /\ b_nested' = [b_nested EXCEPT ![c] = TRUE]
            /\ b_exc' = [b_exc EXCEPT ![c] = NestedRunError]
            /\ b_pc' = [b_pc EXCEPT ![c] = "outer_except"]
            /\ UNCHANGED <<b_result, b_runs>>
       ELSE /\ b_runs' = [b_runs EXCEPT ![c] = @ + 1]
            /\ UNCHANGED b_nested
            /\ IF b_outcome.coro.kind = "return"
               THEN /\ b_result' = [b_result EXCEPT ![c] = b_outcome.coro.value]
                    /\ b_pc' = [b_pc EXCEPT ![c] = "returned"]
                    /\ UNCHANGED b_exc
               ELSE /\ b_exc' = [b_exc EXCEPT ![c] = b_outcome.coro.exc]
                    /\ b_pc' = [b_pc EXCEPT ![c] = "outer_except"]
                    /\ UNCHANGED b_result
    /\ UNCHANGED <<b_wrapper, b_outcome, b_pool, nonBridge>>

\* except Exception as e: return {"status": "error", "error": ...}
BOuterExcept(c) ==
    /\ b_pc[c] = "outer_except"
    /\ b_result' = [b_result EXCEPT ![c] = outer_handler(b_wrapper, b_exc[c])]
    /\ b_pc' = [b_pc EXCEPT ![c] = "returned"]
    /\ UNCHANGED <<b_wrapper, b_outcome, b_pool, b_exc, b_nested, b_runs, nonBridge>>

\* Both calls are over; the next pair may start.
BDone ==
    /\ \A c \in Contexts : b_pc[c] = "returned"
    /\ b_pc' = [c \in Contexts |-> "idle"]
    /\ UNCHANGED <<b_wrapper, b_outcome, b_result, b_pool, b_exc, b_nested, b_runs, nonBridge>>

-----------------------------------------------------------------------------
(* One call at a time: either a caller of BaseDatabricksClient.get/post/   *)
(* put/delete on a client instance of its own, or a bridged cluster tool   *)
(* on the process-wide clusters_client.                                    *)

DirectApis == {"get", "post", "put", "delete"}
ClusterTools == {"list_clusters", "get_cluster", "start_cluster", "terminate_cluster"}
\* The tools whose dispatch checks `if not cluster_id` (mcp_client.py 93-118).
NeedsClusterId == {"get_cluster", "start_cluster", "terminate_cluster"}
\* The tools whose dispatch ends with `finally: await self._cleanup_sessions(...)`.
CleansUp == {"list_clusters", "get_cluster"}
\* A cluster id argument; "" stands for the falsy ones, None and "".
ClusterIds == {"", "abc"}

\* The methods of ClustersClient that take a cluster id, called on the client.
ClientMethods ==
    {"ClustersClient.get_cluster", "ClustersClient.start_cluster",
     "ClustersClient.terminate_cluster"}

\* The methods that check their configuration mapping, with the keys checked.
CreateMethods == {"create_job", "create_cluster", "create_warehouse"}
required_fields(api) ==
    IF api = "create_job" THEN <<"name", "tasks">>
    ELSE IF api = "create_cluster" THEN <<"cluster_name", "spark_version", "node_type_id">>
    ELSE IF api = "create_warehouse" THEN <<"name", "cluster_size">>
    ELSE <<>>

\* Calls made on a client object by its caller, not through a tool.
Direct == DirectApis \cup ClientMethods \cup CreateMethods

\* A configuration mapping: the keys it has, and the length of its "tasks"
\* list when it has one.
Config(keys, ntasks) == [keys |-> keys, ntasks |-> ntasks]
NoConfig == Config({}, 0)
Range(seq) == {seq[i] : i \in DOMAIN seq}
Configs(api) ==
    UNION { {Config(k, n) : n \in IF "tasks" \in k THEN {0, 1} ELSE {0}} :
            k \in SUBSET Range(required_fields(api)) }

ValueError(msg) == Exc("ValueError", msg, None, None)

\* jobs.py 58-62, clusters.py 53-57, sql.py 199-203: the checks a method
\* makes before its request; NoExc when it makes none or all pass.
RECURSIVE first_missing(_, _)
first_missing(fields, keys) ==
    IF fields = <<>> THEN ""
    ELSE IF Head(fields) \notin keys THEN Head(fields)
    ELSE first_missing(Tail(fields), keys)

validate(api, config) ==
    IF api = "create_job" THEN
        IF "name" \notin config.keys THEN ValueError("Job name is required")
        ELSE IF "tasks" \notin config.keys THEN ValueError("Job tasks are required")
        ELSE NoExc
    ELSE IF api \in {"create_cluster", "create_warehouse"} THEN
        LET f == first_missing(required_fields(api), config.keys) IN
        IF f = "" THEN NoExc ELSE ValueError("Missing required field: " \o f)
    ELSE NoExc

HttpCalls ==
    { [api |-> a, cluster_id |-> "", ctx |-> "in_loop", config |-> NoConfig] : a \in DirectApis }
    \cup { [api |-> t, cluster_id |-> IF t \in NeedsClusterId THEN i ELSE "", ctx |-> c,
             config |-> NoConfig] :
             t \in ClusterTools, i \in ClusterIds, c \in Contexts }
    \cup { [api |-> m, cluster_id |-> i, ctx |-> "in_loop", config |-> NoConfig] :
             m \in ClientMethods, i \in ClusterIds }
    \cup UNION { { [api |-> m, cluster_id |-> "", ctx |-> "in_loop", config |-> g] :
                     g \in Configs(m) } : m \in CreateMethods }

\* mcp_client.py 84-118 and 316-318: the dispatch of a cluster tool, given how
\* the client's request ended.
_call_mcp_tool(tool, cluster_id, o) ==
    IF tool \in NeedsClusterId /\ cluster_id = "" THEN Error("cluster_id is required")
    ELSE IF o.kind = "return" THEN Success(o.value)
    ELSE Error(o.exc.message)

\* base.py 38-43: a session is made when there is none or it is closed. A
\* session left open by an earlier bridged call ("stale": its loop is gone)
\* is not closed and is used again.
_get_session(sess) == IF sess \in {"none", "closed"} THEN "open" ELSE sess

HInit ==
    /\ h_pc = "idle"
    /\ h_call = [api |-> "get", cluster_id |-> "", ctx |-> "in_loop", config |-> NoConfig]
    /\ h_headers = Pending
    /\ h_transport = Failure(NoExc)
    /\ h_outcome = Pending
    /\ h_seen = {}
    /\ h_result = NoResult
    /\ h_requests = 0
    /\ h_tokens = 0
    /\ h_session = "none"
    /\ h_own = "none"
    /\ h_sent = Pending

HCall ==
    /\ h_pc = "idle"
    /\ \E c \in HttpCalls :
          /\ h_call' = c
          /\ IF c.api \in NeedsClusterId /\ c.cluster_id = ""
             THEN /\ h_result' = _call_mcp_tool(c.api, c.cluster_id, Pending)
                  /\ h_outcome' = Pending
                  /\ h_pc' = "done"
             ELSE IF validate(c.api, c.config) # NoExc
             THEN /\ h_result' = NoResult
                  /\ h_outcome' = Raise(validate(c.api, c.config))
                  /\ h_pc' = "finish"
             ELSE /\ h_result' = NoResult
                  /\ h_outcome' = Pending
                  /\ h_pc' = "headers"
    /\ h_headers' = Pending
    /\ h_transport' = Failure(NoExc)
    /\ h_requests' = 0
    /\ h_tokens' = 0
    /\ h_sent' = Pending
    /\ UNCHANGED <<h_seen, h_session, h_own, nonHttp>>

\* base.py 73: headers = await get_authenticated_headers()
HHeaders ==
    /\ h_pc = "headers"
    /\ \E ho \in HeaderOutcomes :
          /\ h_headers' = ho
          /\ IF ho.kind = "raise"
             THEN /\ h_outcome' = _make_request(ho, Failure(NoExc))
                  /\ h_pc' = "finish"
             ELSE /\ h_outcome' = Pending
                  /\ h_pc' = "session"
    /\ h_tokens' = h_tokens + 1
    /\ UNCHANGED <<h_call, h_transport, h_seen, h_result, h_requests, h_session, h_own, h_sent, nonHttp>>

\* base.py 74: session = await self._get_session()
HSession ==
    /\ h_pc = "session"
    /\ IF h_call.api \in Direct
       THEN h_own' = _get_session(h_own) /\ UNCHANGED h_session
       ELSE h_session' = _get_session(h_session) /\ UNCHANGED h_own
    /\ h_pc' = "request"
    /\ UNCHANGED <<h_call, h_headers, h_transport, h_outcome, h_seen, h_result, h_requests, h_tokens, h_sent, nonHttp>>

\* base.py 76-117: the request and what comes back. A stale session raises
\* before anything is sent.
HRequest ==
    /\ h_pc = "request"
    /\ IF h_call.api \in ClusterTools /\ h_session = "stale"
       THEN /\ h_transport' = Failure(StaleLoopError)
            /\ UNCHANGED <<h_requests, h_sent>>
       ELSE /\ h_transport' \in Transports
            /\ h_requests' = h_requests + 1
            /\ h_sent' = h_headers
    /\ h_outcome' = _make_request(h_headers, h_transport')
    /\ h_pc' = "finish"
    /\ UNCHANGED <<h_call, h_headers, h_seen, h_result, h_tokens, h_session, h_own, nonHttp>>

\* The call returns to its caller. A direct caller receives the outcome of
\* _make_request. A tool's dispatch turns it into a ToolResult, closes the
\* session where the branch has a finally clause, and the *_sync wrapper hands
\* the mapping on as it is (a returned mapping passes BFutureResult and
\* BInnerExcept unchanged); the loop asyncio.run made is then closed, which
\* leaves a session that is still open stale. Closing a stale session may
\* fail inside _cleanup_sessions, which swallows the exception.
HFinish ==
    /\ h_pc = "finish"
    /\ IF h_call.api \in Direct
       THEN /\ UNCHANGED <<h_result, h_session>>
            /\ h_seen' = h_seen \cup
                  (IF h_outcome.kind = "raise" /\ h_headers.kind = "return"
                   THEN {<<h_transport.kind, h_outcome.exc.cls>>} ELSE {})
       ELSE /\ UNCHANGED h_seen
            /\ h_result' = _call_mcp_tool(h_call.api, h_call.cluster_id, h_outcome)
            /\ IF h_call.api \in CleansUp
               THEN \/ h_session' = (IF h_session = "none" THEN "none" ELSE "closed")
                    \/ h_session = "stale" /\ h_session' = "stale"
               ELSE h_session' = (IF h_session = "open" THEN "stale" ELSE h_session)
    /\ h_pc' = "done"
    /\ UNCHANGED <<h_call, h_headers, h_transport, h_outcome, h_requests, h_tokens, h_own, h_sent, nonHttp>>

HDone ==
    /\ h_pc = "done"
    /\ h_pc' = "idle"
    /\ UNCHANGED <<h_call, h_headers, h_transport, h_outcome, h_seen, h_result, h_requests, h_tokens, h_session, h_own, h_sent, nonHttp>>

\* base.py 45-48: the owner of a client instance closes it.
HClose ==
    /\ h_pc = "idle"
    /\ h_own = "open"
    /\ h_own' = "closed"
    /\ UNCHANGED <<h_pc, h_call, h_headers, h_transport, h_outcome, h_seen, h_result, h_requests, h_tokens, h_session, h_sent, nonHttp>>

-----------------------------------------------------------------------------
(* ServicePrincipalAuth: get_access_token by coroutines of one event loop.  *)

\* auth.py 43: the safety margin, in seconds.
MARGIN == 300

\* auth.py 80: the lifetime assumed when the answer has no expires_in.
DEFAULT_EXPIRES_IN == 3600

\* Bounds: the callers on the loop, the token requests sent, the clock.
NCoroutines == 3
MaxRequests == 2
MaxNow == 200

Coroutines == 1 .. NCoroutines

\* Seconds by which the clock is seen to advance between two steps.
Steps == {200}

\* Lifetimes the identity provider answers with.
ExpiresIns == {100, 300, 500}

\* A token is the number of the request that fetched it; 0 is the empty
\* string.
EmptyToken == Some(0)

\* bool(self._access_token)
Truthy(token) == token # None /\ token # EmptyToken

\* The answer to the POST on the token endpoint: the status (0: the request
\* failed before any status), the access_token member ("new", "empty",
\* "missing") and the expires_in member (a number, a non-number, missing).
Answer(status, tok, etype, e) ==
    [status |-> status, access_token |-> tok, expires_type |-> etype, expires_in |-> e]

Answers ==
    {Answer(200, "new", "int", e) : e \in ExpiresIns}
        \cup {Answer(200, "new", "absent", 0), Answer(200, "new", "str", 0),
              Answer(200, "empty", "absent", 0), Answer(200, "missing", "absent", 0),
              Answer(401, "missing", "absent", 0), Answer(0, "missing", "absent", 0)}

\* auth.py 43, with the margin left out.
token_is_valid_without_margin(token, expires, now) ==
    Truthy(token) /\ now < expires

\* auth.py 43: self._access_token and time.time() < self._token_expires_at - 300
token_is_valid(token, expires, now) ==
    Truthy(token) /\ now < expires - MARGIN

\* auth.py 80: token_data.get("expires_in", 3600)
expires_in_of(ans) ==
    IF ans.expires_type = "absent" THEN DEFAULT_EXPIRES_IN ELSE ans.expires_in

\* _acquire_token that drops the cached token when the request failed.
_acquire_token_clearing_cache(token, expires, now, n, ans) ==
    IF ans.status # 200 THEN
        [token |-> None, expires |-> 0, raised |-> TRUE]
    ELSE IF ans.access_token = "missing" THEN
        [token |-> token, expires |-> expires, raised |-> TRUE]
    ELSE
        LET t == IF ans.access_token = "empty" THEN EmptyToken ELSE Some(n) IN
        IF ans.expires_type = "str" THEN
            [token |-> t, expires |-> expires, raised |-> TRUE]
        ELSE
            [token |-> t, expires |-> now + expires_in_of(ans), raised |-> FALSE]

\* auth.py 55-91: the cache after the answer to request n arrived at time
\* now, and whether _acquire_token raised.
_acquire_token(token, expires, now, n, ans) ==
    IF ans.status # 200 THEN
        [token |-> token, expires |-> expires, raised |-> TRUE]
    ELSE IF ans.access_token = "missing" THEN
        [token |-> token, expires |-> expires, raised |-> TRUE]
    ELSE
        LET t == IF ans.access_token = "empty" THEN EmptyToken ELSE Some(n) IN
        IF ans.expires_type = "str" THEN
            [token |-> t, expires |-> expires, raised |-> TRUE]
        ELSE
            [token |-> t, expires |-> now + expires_in_of(ans), raised |-> FALSE]

\* An asyncio.Lock that lets everybody in.
lock_is_free_always(holder, waiters) == TRUE

\* auth.py 41: what Lock.acquire tests before taking the lock at once.
lock_is_free(holder, waiters) == holder = 0 /\ waiters = <<>>

\* What a call has done so far: the request in flight when it arrived (0:
\* none), the request it sent itself (0: none), the lifetime it was answered,
\* and whether its request failed (a status other than 200, or no answer).
NoCall == [waited |-> 0, req |-> 0, answered |-> 0, failed |-> FALSE]

\* What a call gave its caller: a token or an exception, the number of
\* requests sent until then, and expiry - now at that moment.
NoRet == [kind |-> "", token |-> None, at_request |-> 0, remaining |-> 0]
RetToken(token, n, remaining) ==
    [kind |-> "token", token |-> token, at_request |-> n, remaining |-> remaining]
RetRaise(n) == [kind |-> "raise", token |-> None, at_request |-> n, remaining |-> 0]

\* The number of the request in flight (0: none).
InFlight ==
    IF \E c \in Coroutines : a_pc[c] = "inflight"
    THEN a_call[CHOOSE c \in Coroutines : a_pc[c] = "inflight"].req
    ELSE 0


\* auth.py 26-29
AInit ==
    /\ a_pc = [c \in Coroutines |-> "idle"]
    /\ a_token = None
    /\ a_expires = 0
    /\ a_holder = 0
    /\ a_waiters = <<>>
    /\ a_now = 0
    /\ a_requests = 0
    /\ a_call = [c \in Coroutines |-> NoCall]
    /\ a_ret = [c \in Coroutines |-> NoRet]

\* auth.py 41: async with self._token_lock, entered.
AGet(c) ==
    /\ a_pc[c] = "idle"
    /\ a_requests < MaxRequests
    /\ a_call' = [a_call EXCEPT ![c] = [NoCall EXCEPT !.waited = InFlight]]
    /\ a_ret' = [a_ret EXCEPT ![c] = NoRet]
    /\ IF lock_is_free(a_holder, a_waiters)
       THEN /\ a_holder' = c
            /\ a_pc' = [a_pc EXCEPT ![c] = "locked"]
            /\ UNCHANGED a_waiters
       ELSE /\ a_waiters' = Append(a_waiters, c)
            /\ a_pc' = [a_pc EXCEPT ![c] = "waiting"]
            /\ UNCHANGED a_holder
    /\ UNCHANGED <<a_token, a_expires, a_now, a_requests, nonAuth>>

\* auth.py 41: the lock is left; the first waiter is woken and owns it.
release(c, holder, waiters) ==
    IF holder # c THEN [holder |-> holder, waiters |-> waiters]
    ELSE IF waiters = <<>> THEN [holder |-> 0, waiters |-> waiters]
    ELSE [holder |-> Head(waiters), waiters |-> Tail(waiters)]

\* auth.py 41: a waiter resumes with the lock.
AWake(c) ==
    /\ a_pc[c] = "waiting"
    /\ a_holder = c
    /\ a_pc' = [a_pc EXCEPT ![c] = "locked"]
    /\ UNCHANGED <<a_token, a_expires, a_holder, a_waiters, a_now, a_requests, a_call, a_ret, nonAuth>>

\* auth.py 43-48 and 76: the cached token is returned, or the request for
\* a new one is sent.
ACheck(c) ==
    /\ a_pc[c] = "locked"
    /\ token_is_valid(a_token, a_expires, a_now) \/ a_requests < MaxRequests
    /\ IF token_is_valid(a_token, a_expires, a_now)
       THEN LET r == release(c, a_holder, a_waiters) IN
            /\ a_ret' = [a_ret EXCEPT ![c] = RetToken(a_token, a_requests, a_expires - a_now)]
            /\ a_holder' = r.holder
            /\ a_waiters' = r.waiters
            /\ a_pc' = [a_pc EXCEPT ![c] = "done"]
            /\ UNCHANGED <<a_requests, a_call>>
       ELSE /\ a_requests' = a_requests + 1
            /\ a_call' = [a_call EXCEPT ![c].req = a_requests + 1]
            /\ a_pc' = [a_pc EXCEPT ![c] = "inflight"]
            /\ UNCHANGED <<a_ret, a_holder, a_waiters>>
    /\ UNCHANGED <<a_token, a_expires, a_now, nonAuth>>

\* auth.py 77-91 and 50-53: the answer arrives, the cache is written, the
\* call returns the token or raises, and the lock is left.
AResponse(c) ==
    /\ a_pc[c] = "inflight"
    /\ \E ans \in Answers :
          LET got == _acquire_token(a_token, a_expires, a_now, a_call[c].req, ans)
              r == release(c, a_holder, a_waiters)
          IN  /\ a_token' = got.token
              /\ a_expires' = got.expires
              /\ a_call' = [a_call EXCEPT ![c].answered = expires_in_of(ans),
                                           ![c].failed = (ans.status # 200)]
              /\ a_ret' = [a_ret EXCEPT ![c] =
                     IF got.raised \/ ~Truthy(got.token)
                     THEN RetRaise(a_requests)
                     ELSE RetToken(got.token, a_requests, got.expires - a_now)]
              /\ a_holder' = r.holder
              /\ a_waiters' = r.waiters
    /\ a_pc' = [a_pc EXCEPT ![c] = "done"]
    /\ UNCHANGED <<a_now, a_requests, nonAuth>>

\* The caller has taken the result; the coroutine may call again.
ADone(c) ==
    /\ a_pc[c] = "done"
    /\ a_pc' = [a_pc EXCEPT ![c] = "idle"]
    /\ a_call' = [a_call EXCEPT ![c] = NoCall]
    /\ a_ret' = [a_ret EXCEPT ![c] = NoRet]
    /\ UNCHANGED <<a_token, a_expires, a_holder, a_waiters, a_now, a_requests, nonAuth>>

\* auth.py 43, 81: time.time() advances.
ATick ==
    /\ \E d \in Steps :
          /\ a_now + d <= MaxNow
          /\ a_now' = a_now + d
    /\ UNCHANGED <<a_pc, a_token, a_expires, a_holder, a_waiters, a_requests, a_call, a_ret, nonAuth>>

-----------------------------------------------------------------------------
(* ServicePrincipalAuth: the one global auth object, used by worker threads *)
(* that each run their own event loop (mcp_client.py 934-937).  Nothing     *)
(* orders the threads, so every read and write of the object is a step.    *)

\* The worker threads; thread t runs event loop t.
Threads == {1, 2}

\* What a call met: the (token, expiry) its validity test read, whether the
\* expiry was read at all, and the number of the request it sent (0: none).
NotSeen == [token |-> None, expires |-> 0, read |-> FALSE, req |-> 0]

\* time.time() while the calls run: they overlap, the clock stands still.
ThreadNow == 0

\* What a call gave its caller.
TNoRet == [kind |-> "", token |-> None]
TToken(token) == [kind |-> "token", token |-> token]
TRaise(cls) == [kind |-> cls, token |-> None]

\* auth.py 26-29 and 108
TInit ==
    /\ t_pc = [t \in Threads |-> "idle"]
    /\ t_locked = FALSE
    /\ t_loop = 0
    /\ t_waiters = <<>>
    /\ t_token = None
    /\ t_expires = 0
    /\ t_requests = 0
    /\ t_seen = [t \in Threads |-> NotSeen]
    /\ t_ret = [t \in Threads |-> TNoRet]

\* mcp_client.py 934-937: a bridged call starts asyncio.run on a worker
\* thread.
TCall(t) ==
    /\ t_pc[t] = "idle"
    /\ t_pc' = [t_pc EXCEPT ![t] = "enter"]
    /\ t_seen' = [t_seen EXCEPT ![t] = NotSeen]
    /\ t_ret' = [t_ret EXCEPT ![t] = TNoRet]
    /\ UNCHANGED <<t_locked, t_loop, t_waiters, t_token, t_expires, t_requests, nonThread>>

\* auth.py 41: Lock.acquire reads _locked.  Found free, the lock is about
\* to be taken; found taken, the thread waits on a future of its own loop,
\* which a lock bound to another loop refuses with RuntimeError.
TAcquire(t) ==
    /\ t_pc[t] = "enter"
    /\ IF ~t_locked /\ t_waiters = <<>>
       THEN /\ t_pc' = [t_pc EXCEPT ![t] = "take"]
            /\ UNCHANGED <<t_loop, t_waiters, t_ret>>
       ELSE IF t_loop \in {0, t}
       THEN /\ t_loop' = t
            /\ t_waiters' = Append(t_waiters, t)
            /\ t_pc' = [t_pc EXCEPT ![t] = "waiting"]
            /\ UNCHANGED t_ret
       ELSE /\ t_ret' = [t_ret EXCEPT ![t] = TRaise("RuntimeError")]
            /\ t_pc' = [t_pc EXCEPT ![t] = "done"]
            /\ UNCHANGED <<t_loop, t_waiters>>
    /\ UNCHANGED <<t_locked, t_token, t_expires, t_requests, t_seen, nonThread>>

\* auth.py 41: Lock.acquire writes _locked = True.
TTake(t) ==
    /\ t_pc[t] = "take"
    /\ t_locked' = TRUE
    /\ t_pc' = [t_pc EXCEPT ![t] = "locked"]
    /\ UNCHANGED <<t_loop, t_waiters, t_token, t_expires, t_requests, t_seen, t_ret, nonThread>>

\* auth.py 41: Lock.release from thread t: _locked = False, and the first
\* waiter's future is completed.  The future belongs to another thread's
\* loop, which may or may not notice.
t_release(t) ==
    /\ t_locked' = FALSE
    /\ IF \E w \in Threads : t_pc[w] = "waiting" /\ t_waiters # <<>> /\ w = Head(t_waiters)
       THEN \E wakes \in BOOLEAN :
               t_pc' = [t_pc EXCEPT ![t] = "done",
                                    ![Head(t_waiters)] = IF wakes THEN "woken" ELSE "hung"]
       ELSE t_pc' = [t_pc EXCEPT ![t] = "done"]

\* auth.py 41: a woken waiter leaves the queue and takes the lock.
TWoken(t) ==
    /\ t_pc[t] = "woken"
    /\ t_locked' = TRUE
    /\ t_waiters' = SelectSeq(t_waiters, LAMBDA w : w # t)
    /\ t_pc' = [t_pc EXCEPT ![t] = "locked"]
    /\ UNCHANGED <<t_loop, t_token, t_expires, t_requests, t_seen, t_ret, nonThread>>

\* auth.py 43: the left operand, self._access_token, is read.
TReadToken(t) ==
    /\ t_pc[t] = "locked"
    /\ t_seen' = [t_seen EXCEPT ![t] = [NotSeen EXCEPT !.token = t_token]]
    /\ t_pc' = [t_pc EXCEPT ![t] = "test"]
    /\ UNCHANGED <<t_locked, t_loop, t_waiters, t_token, t_expires, t_requests, t_ret, nonThread>>

\* auth.py 43-48 and 76: for a token that is set, self._token_expires_at
\* is read; the cached token is returned or the request is sent.
TTest(t) ==
    /\ t_pc[t] = "test"
    /\ LET seen == IF Truthy(t_seen[t].token)
                   THEN [t_seen[t] EXCEPT !.expires = t_expires, !.read = TRUE]
                   ELSE t_seen[t]
       IN  IF token_is_valid(seen.token, seen.expires, ThreadNow)
           THEN /\ t_seen' = [t_seen EXCEPT ![t] = seen]
                /\ t_ret' = [t_ret EXCEPT ![t] = TToken(t_token)]
                /\ t_release(t)
                /\ UNCHANGED t_requests
           ELSE /\ t_seen' = [t_seen EXCEPT ![t] = [seen EXCEPT !.req = t_requests + 1]]
                /\ t_requests' = t_requests + 1
                /\ t_pc' = [t_pc EXCEPT ![t] = "inflight"]
                /\ UNCHANGED <<t_locked, t_ret>>
    /\ UNCHANGED <<t_loop, t_waiters, t_token, t_expires, nonThread>>

\* auth.py 79: the answer arrived; self._access_token is written.
TWriteToken(t) ==
    /\ t_pc[t] = "inflight"
    /\ t_token' = Some(t_seen[t].req)
    /\ t_pc' = [t_pc EXCEPT ![t] = "write_expiry"]
    /\ UNCHANGED <<t_locked, t_loop, t_waiters, t_expires, t_requests, t_seen, t_ret, nonThread>>

\* auth.py 80-81 and 50-53: self._token_expires_at is written, the token
\* now in the cache is returned and the lock is left.
TWriteExpiry(t) ==
    /\ t_pc[t] = "write_expiry"
    /\ t_expires' = ThreadNow + DEFAULT_EXPIRES_IN
    /\ t_ret' = [t_ret EXCEPT ![t] = TToken(t_token)]
    /\ t_release(t)
    /\ UNCHANGED <<t_loop, t_waiters, t_token, t_requests, t_seen, nonThread>>

\* The bridged call is over; the thread may serve another.
TDone(t) ==
    /\ t_pc[t] = "done"
    /\ t_pc' = [t_pc EXCEPT ![t] = "idle"]
    /\ UNCHANGED <<t_locked, t_loop, t_waiters, t_token, t_expires, t_requests, t_seen, t_ret, nonThread>>

-----------------------------------------------------------------------------
(* SQLClient.execute_statement and _wait_for_statement_completion, and     *)
(* JobsClient.run_job followed by wait_for_run_completion.                 *)

\* sql.py 78: max_wait_time, in seconds.
DEFAULT_MAX_WAIT == 300

\* sql.py 107: asyncio.sleep(2)
POLL_INTERVAL == 2

\* jobs.py 160: max_wait_time, in seconds.
DEFAULT_RUN_MAX_WAIT == 3600

\* jobs.py 191: asyncio.sleep(10)
RUN_POLL_INTERVAL == 10

\* Seconds one HTTP request is seen to take.
Latencies == {1, 60, 150}
latencies(kind) == IF kind = "run" THEN {5, 1800} ELSE Latencies

\* The max_wait_time arguments; execute_statement passes none.
max_wait_times(kind) ==
    IF kind = "run" THEN {0, RUN_POLL_INTERVAL, DEFAULT_RUN_MAX_WAIT}
    ELSE {0, POLL_INTERVAL, DEFAULT_MAX_WAIT}

StatementStates == {"PENDING", "RUNNING", "SUCCEEDED", "FAILED", "CANCELED"}
\* life_cycle_state of a run
RunStates == {"PENDING", "RUNNING", "TERMINATING", "TERMINATED", "SKIPPED", "INTERNAL_ERROR"}

\* A response of the statements API: its statement_id ("" when it has
\* none), its status.state ("" when it has none) and the number of the
\* request it answers; or the exception the request raised.  For a run the
\* id is the run_id and the state is state.life_cycle_state.
Resp(id, state, n) == [kind |-> "return", statement_id |-> id, state |-> state, n |-> n]
Raised(n) == [kind |-> "raise", statement_id |-> "", state |-> "", n |-> n]
NoResp == [kind |-> "", statement_id |-> "", state |-> "", n |-> 0]

\* What request n may be answered with.
SubmitOutcomes(n) ==
    {Resp(id, st, n) : id \in {"", "s1"}, st \in StatementStates \cup {""}} \cup {Raised(n)}
PollOutcomes(n) ==
    {Resp("s1", st, n) : st \in StatementStates} \cup {Raised(n)}
poll_outcomes(kind, n) ==
    IF kind = "run" THEN {Resp("r1", st, n) : st \in RunStates} \cup {Raised(n)}
    ELSE PollOutcomes(n)

\* The endpoints: sql.py 65, 99, 110 and 136; jobs.py 111, 124 and 155.
submit_endpoint(kind) ==
    IF kind = "run" THEN "POST /api/2.1/jobs/run-now" ELSE "POST /api/2.0/sql/statements"
status_endpoint(kind) ==
    IF kind = "run" THEN "GET /api/2.1/jobs/runs/get" ELSE "GET /api/2.0/sql/statements/{id}"
cancel_endpoint(kind) ==
    IF kind = "run" THEN "POST /api/2.1/jobs/runs/cancel"
    ELSE "POST /api/2.0/sql/statements/{id}/cancel"

\* A test that also waits for a statement that has not started.
still_running_or_pending(resp) ==
    resp.statement_id # "" /\ resp.state \in {"RUNNING", "PENDING"}

\* sql.py 69: statement_id and response.get("status", {}).get("state") == "RUNNING"
still_running(resp) == resp.statement_id # "" /\ resp.state = "RUNNING"

\* sql.py 102, with FAILED and CANCELED left out.
is_terminal_succeeded_only(state) == state = "SUCCEEDED"

\* sql.py 102: state in ["SUCCEEDED", "FAILED", "CANCELED"]
is_terminal(state) == state \in {"SUCCEEDED", "FAILED", "CANCELED"}

\* jobs.py 185: state in ["TERMINATED", "SKIPPED", "INTERNAL_ERROR"]
is_run_terminal(state) == state \in {"TERMINATED", "SKIPPED", "INTERNAL_ERROR"}

terminal(kind, state) ==
    IF kind = "run" THEN is_run_terminal(state) ELSE is_terminal(state)

\* sql.py 94, jobs.py 177:
\* asyncio.get_event_loop().time() - start_time > max_wait_time
timed_out(now, start, max_wait_time) == now - start > max_wait_time

\* sql.py 107, jobs.py 191: the seconds slept between two polls.
sleep_interval(kind) ==
    IF kind = "run" THEN RUN_POLL_INTERVAL ELSE POLL_INTERVAL

\* A loop whose sleep does not advance the clock it reads.
clock_stands_still(kind, now, d) == now

\* sql.py 99-107, jobs.py 182-191: the loop's clock after a request that
\* took d seconds and the sleep.
clock_after_turn(kind, now, d) ==
    now + d + sleep_interval(kind)

\* A timeout that cancels the remote operation.
timeout_request_cancels(kind) == cancel_endpoint(kind)

\* sql.py 110, jobs.py 194: the request made once the loop is left.
timeout_request(kind) == status_endpoint(kind)

\* sql.py 110: return await self.get(...), the outcome of a new request.
after_timeout(last, fresh) == fresh

\* The execute_sql tool with a result that follows the statement's state.
execute_sql_checks_state(statement, o) ==
    IF statement = "" THEN Error("statement is required")
    ELSE IF o.kind = "raise" THEN Error("request failed")
    ELSE IF o.state \in {"FAILED", "CANCELED"} THEN Error(o.state)
    ELSE Success(Obj([statement_id |-> o.statement_id, state |-> o.state]))

\* mcp_client.py 120-139 and 316-318: the execute_sql tool around
\* execute_statement; execute_sql_sync hands its mapping on. The text of
\* the exception is not told apart here.
execute_sql(statement, o) ==
    IF statement = "" THEN Error("statement is required")
    ELSE IF o.kind = "raise" THEN Error("request failed")
    ELSE Success(Obj([statement_id |-> o.statement_id, state |-> o.state]))

QInit ==
    /\ q_pc = "idle"
    /\ q_kind = "execute_statement"
    /\ q_max = DEFAULT_MAX_WAIT
    /\ q_now = 0
    /\ q_start = 0
    /\ q_submit = NoResp
    /\ q_last = NoResp
    /\ q_sent = 0
    /\ q_polls = 0
    /\ q_final = 0
    /\ q_log = {}
    /\ q_ret = NoResp
    /\ q_result = NoResult

\* The loop's clock is counted from the start of the call: only
\* differences of its readings are used (sql.py 90, 94).
\* sql.py 20-65 and 68-73: the statement is posted; a response that is not
\* RUNNING, or has no statement_id, is returned as it is. The execute_sql
\* tool (mcp_client.py 120-139) wraps what execute_statement gives.
QSubmit ==
    /\ q_pc = "idle"
    /\ \E d \in Latencies, o \in SubmitOutcomes(1) :
          /\ q_now' = d
          /\ q_submit' = o
          /\ q_sent' = 1
          /\ IF o.kind = "return" /\ still_running(o)
             THEN /\ q_pc' = "polling"
                  /\ q_start' = d
                  /\ q_ret' = NoResp
             ELSE /\ q_pc' = "done"
                  /\ q_start' = 0
                  /\ q_ret' = o
    /\ q_result' = IF q_pc' = "done" THEN execute_sql("SELECT 1", q_ret') ELSE NoResult
    /\ q_kind' = "execute_statement"
    /\ q_max' = DEFAULT_MAX_WAIT
    /\ q_log' = {submit_endpoint("execute_statement")}
    /\ q_last' = NoResp
    /\ q_polls' = 0
    /\ q_final' = 0
    /\ UNCHANGED nonSql

\* mcp_client.py 120-124: the execute_sql tool called without a statement.
QNoStatement ==
    /\ q_pc = "idle"
    /\ q_pc' = "done"
    /\ q_kind' = "execute_statement"
    /\ q_result' = execute_sql("", NoResp)
    /\ q_max' = DEFAULT_MAX_WAIT
    /\ q_now' = 0
    /\ q_start' = 0
    /\ q_submit' = NoResp
    /\ q_sent' = 0
    /\ q_log' = {}
    /\ q_last' = NoResp
    /\ q_polls' = 0
    /\ q_final' = 0
    /\ q_ret' = NoResp
    /\ UNCHANGED nonSql

\* sql.py 75-90: _wait_for_statement_completion(statement_id, max_wait_time)
\* called for a statement posted before.
QWait ==
    /\ q_pc = "idle"
    /\ \E m \in max_wait_times("statement_wait") : q_max' = m
    /\ q_kind' = "statement_wait"
    /\ q_result' = NoResult
    /\ q_pc' = "polling"
    /\ q_now' = 0
    /\ q_start' = 0
    /\ q_submit' = NoResp
    /\ q_sent' = 0
    /\ q_log' = {}
    /\ q_last' = NoResp
    /\ q_polls' = 0
    /\ q_final' = 0
    /\ q_ret' = NoResp
    /\ UNCHANGED nonSql

\* jobs.py 95-111 and 157-174: run_job, and with the run_id it returned
\* wait_for_run_completion(run_id, max_wait_time).
QRun ==
    /\ q_pc = "idle"
    /\ \E d \in latencies("run"), o \in {Resp("r1", "", 1), Raised(1)},
          m \in max_wait_times("run") :
          /\ q_now' = d
          /\ q_submit' = o
          /\ q_max' = m
          /\ IF o.kind = "return"
             THEN /\ q_pc' = "polling"
                  /\ q_start' = d
                  /\ q_ret' = NoResp
             ELSE /\ q_pc' = "done"
                  /\ q_start' = 0
                  /\ q_ret' = o
    /\ q_kind' = "run"
    /\ q_result' = NoResult
    /\ q_sent' = 1
    /\ q_log' = {submit_endpoint("run")}
    /\ q_last' = NoResp
    /\ q_polls' = 0
    /\ q_final' = 0
    /\ UNCHANGED nonSql

\* sql.py 92-107, jobs.py 175-191: one turn of the loop that is not left by
\* timeout: the status is fetched; a terminal one is returned, otherwise
\* the loop sleeps.
QPoll ==
    /\ q_pc = "polling"
    /\ ~timed_out(q_now, q_start, q_max)
    /\ \E d \in latencies(q_kind), o \in poll_outcomes(q_kind, q_sent + 1) :
          /\ q_sent' = q_sent + 1
          /\ q_polls' = q_polls + 1
          /\ q_last' = o
          /\ IF o.kind = "raise" \/ terminal(q_kind, o.state)
             THEN /\ q_pc' = "done"
                  /\ q_ret' = o
                  /\ q_now' = q_now + d
             ELSE /\ q_pc' = "polling"
                  /\ q_ret' = NoResp
                  /\ q_now' = clock_after_turn(q_kind, q_now, d)
    /\ q_log' = q_log \cup {status_endpoint(q_kind)}
    /\ q_result' = IF q_kind = "execute_statement" /\ q_pc' = "done"
                   THEN execute_sql("SELECT 1", q_ret') ELSE NoResult
    /\ UNCHANGED <<q_kind, q_max, q_start, q_submit, q_final, nonSql>>

\* sql.py 94-96 and 109-110, jobs.py 177-179 and 193-194: the loop is left
\* by timeout.
QTimeout ==
    /\ q_pc = "polling"
    /\ timed_out(q_now, q_start, q_max)
    /\ \E d \in latencies(q_kind), o \in poll_outcomes(q_kind, q_sent + 1) :
          /\ q_sent' = q_sent + 1
          /\ q_final' = q_final + 1
          /\ q_ret' = after_timeout(q_last, o)
          /\ q_now' = q_now + d
    /\ q_log' = q_log \cup {timeout_request(q_kind)}
    /\ q_pc' = "done"
    /\ q_result' = IF q_kind = "execute_statement"
                   THEN execute_sql("SELECT 1", q_ret') ELSE NoResult
    /\ UNCHANGED <<q_kind, q_max, q_start, q_submit, q_last, q_polls, nonSql>>

\* The caller has taken the result.
QDone ==
    /\ q_pc = "done"
    /\ q_pc' = "idle"
    /\ UNCHANGED <<q_kind, q_max, q_now, q_start, q_submit, q_last, q_sent, q_polls, q_final, q_log, q_ret, q_result, nonSql>>

-----------------------------------------------------------------------------
(* set_table_context and the execute_ddl calls it makes.                   *)

\* The field mappings a call may bring.
MaxFields == 2

\* The comments of the field mappings of one call: "" where description,
\* transformation rule and notes are all empty.
FieldComments ==
    UNION { [1 .. n -> {"", "c"}] : n \in 0 .. MaxFields }

\* What list_warehouses gives: the message of the exception it raised, or
\* whether the response has a "warehouses" entry and the ids in it.
ListOutcomes ==
    { [error |-> m, has_key |-> FALSE, ids |-> <<>>] : m \in DdlFailures }
    \cup { [error |-> "", has_key |-> FALSE, ids |-> <<>>] }
    \cup { [error |-> "", has_key |-> TRUE, ids |-> l] :
             l \in {<<>>, <<"w1">>, <<"w2", "w1">>} }

\* A choice of the warehouse that takes the last one of the list.
last_warehouse(l) ==
    IF l.error # "" THEN l.error
    ELSE IF ~l.has_key \/ l.ids = <<>> THEN "none"
    ELSE l.ids[Len(l.ids)]

\* mcp_client.py 717-726: warehouses[0]['id'] where the response has a
\* non-empty "warehouses" entry.
first_warehouse(l) ==
    IF l.error # "" THEN l.error
    ELSE IF ~l.has_key \/ l.ids = <<>> THEN "none"
    ELSE Head(l.ids)

\* mcp_client.py 718 and 731-736: the requests of one execute_ddl call.
ddl_requests(d) ==
    IF d.warehouses \in DdlFailures \cup {"none"}
    THEN << [op |-> "list_warehouses", warehouse |-> ""] >>
    ELSE << [op |-> "list_warehouses", warehouse |-> ""],
            [op |-> "execute_statement", warehouse |-> d.warehouses] >>

\* What one execute_ddl call meets: the list, and how the statement ends.
DdlCalls ==
    { [list |-> l, ddl |-> Ddl(first_warehouse(l), st, FALSE)] :
        l \in ListOutcomes, st \in {"SUCCEEDED", "FAILED"} \cup DdlFailures }

\* A loop over the comments that ends with the first failure and returns it.
after_comment_stops_on_failure(result, comment_result) ==
    IF comment_result.status = "success"
    THEN [ret |-> result, stop |-> FALSE]
    ELSE [ret |-> comment_result, stop |-> TRUE]

\* mcp_client.py 859-865: the result of a comment statement is dropped, the
\* loop goes on and `result` is what is returned in the end.
after_comment(result, comment_result) == [ret |-> result, stop |-> FALSE]

CInit ==
    /\ c_pc = "idle"
    /\ c_fields = <<>>
    /\ c_i = 0
    /\ c_props = NoResult
    /\ c_attempts = 0
    /\ c_failed = 0
    /\ c_list = [error |-> "", has_key |-> FALSE, ids |-> <<>>]
    /\ c_call = <<>>
    /\ c_last = NoResult
    /\ c_ret = NoResult

\* mcp_client.py 747-799: set_table_context is called and the statement for
\* the table properties is made.
CSet ==
    /\ c_pc = "idle"
    /\ c_fields' \in FieldComments
    /\ c_pc' = "props"
    /\ c_i' = 0
    /\ c_props' = NoResult
    /\ c_attempts' = 0
    /\ c_failed' = 0
    /\ c_call' = <<>>
    /\ c_last' = NoResult
    /\ c_ret' = NoResult
    /\ UNCHANGED <<c_list, nonCtx>>

\* mcp_client.py 814-817: result = await execute_ddl(table_props_sql), and
\* the return of a result that is no success.
CProps ==
    /\ c_pc = "props"
    /\ \E x \in DdlCalls :
          /\ c_list' = x.list
          /\ c_call' = ddl_requests(x.ddl)
          /\ c_last' = execute_ddl(x.ddl)
          /\ c_props' = execute_ddl(x.ddl)
          /\ IF execute_ddl(x.ddl).status # "success"
             THEN c_pc' = "done" /\ c_ret' = execute_ddl(x.ddl)
             ELSE c_pc' = "comments" /\ UNCHANGED c_ret
    /\ UNCHANGED <<c_fields, c_i, c_attempts, c_failed, nonCtx>>

\* mcp_client.py 823-863: one turn of the loop over the field mappings.
CComment ==
    /\ c_pc = "comments"
    /\ c_i < Len(c_fields)
    /\ c_i' = c_i + 1
    /\ IF c_fields[c_i + 1] = ""
       THEN UNCHANGED <<c_pc, c_attempts, c_failed, c_list, c_call, c_last, c_ret>>
       ELSE \E x \in DdlCalls :
               LET r == execute_ddl(x.ddl)
                   a == after_comment(c_props, r)
               IN  /\ c_list' = x.list
                   /\ c_call' = ddl_requests(x.ddl)
                   /\ c_last' = r
                   /\ c_attempts' = c_attempts + 1
                   /\ c_failed' = c_failed + (IF r.status = "success" THEN 0 ELSE 1)
                   /\ IF a.stop
                      THEN c_pc' = "done" /\ c_ret' = a.ret
                      ELSE UNCHANGED <<c_pc, c_ret>>
    /\ UNCHANGED <<c_fields, c_props, nonCtx>>

\* mcp_client.py 865: return result
CReturn ==
    /\ c_pc = "comments"
    /\ c_i = Len(c_fields)
    /\ c_ret' = c_props
    /\ c_pc' = "done"
    /\ UNCHANGED <<c_fields, c_i, c_props, c_attempts, c_failed, c_list, c_call, c_last, nonCtx>>

\* The caller has taken the result.
CDone ==
    /\ c_pc = "done"
    /\ c_pc' = "idle"
    /\ UNCHANGED <<c_fields, c_i, c_props, c_attempts, c_failed, c_list, c_call, c_last, c_ret, nonCtx>>

-----------------------------------------------------------------------------
(* NotebooksClient.search_notebooks over a workspace.                      *)

\* The workspace: the objects, each with the directory it is in.
WorkspaceObjects ==
    { [path |-> "/STATS", object_type |-> "NOTEBOOK", parent |-> "/"],
      [path |-> "/notes", object_type |-> "NOTEBOOK", parent |-> "/"],
      [path |-> "/stats_jar", object_type |-> "LIBRARY", parent |-> "/"],
      [path |-> "/Team", object_type |-> "DIRECTORY", parent |-> "/"],
      [path |-> "/Team/stats", object_type |-> "NOTEBOOK", parent |-> "/Team"],
      [path |-> "/Team/Jobs", object_type |-> "DIRECTORY", parent |-> "/Team"],
      [path |-> "/Team/Jobs/stats_nightly", object_type |-> "NOTEBOOK", parent |-> "/Team/Jobs"] }

\* GET /api/2.0/workspace/list answers with the objects directly inside
\* the directory asked for, in an order of the workspace's choosing.
Listings(root) ==
    LET inside == {o \in WorkspaceObjects : o.parent = root}
    IN  { l \in [1 .. Cardinality(inside) -> inside] :
            \A i, j \in DOMAIN l : i # j => l[i] # l[j] }

\* notebooks.py 223-225: the test an object of the listing has to pass.
matches(obj, query) ==
    obj.object_type = "NOTEBOOK" /\ Contains(Lower(obj.path), Lower(query))

\* notebooks.py 221-227: the loop over the listing; the limit is tested
\* after an object was appended.
RECURSIVE search_loop(_, _, _, _)
search_loop(objects, query, max_results, found) ==
    IF objects = <<>> THEN found
    ELSE IF matches(Head(objects), query)
    THEN IF Len(found) + 1 >= max_results
         THEN Append(found, Head(objects))
         ELSE search_loop(Tail(objects), query, max_results, Append(found, Head(objects)))
    ELSE search_loop(Tail(objects), query, max_results, found)

NInit ==
    /\ n_pc = "idle"
    /\ n_query = "stats"
    /\ n_max = 25
    /\ n_root = "/"
    /\ n_listing = <<>>
    /\ n_requests = 0
    /\ n_ret = <<>>

\* notebooks.py 219 and 31-51: all_objects = await
\* self.list_workspace_objects(path=path_prefix or "/"), one GET.
NList ==
    /\ n_pc = "idle"
    /\ n_query' \in {"stats", "STATS", "notes", "x"}
    /\ n_max' \in {-1, 0, 1, 2, 25}
    /\ n_root' \in {"/", "/Team"}
    /\ n_listing' \in Listings(n_root')
    /\ n_requests' = 1
    /\ n_ret' = <<>>
    /\ n_pc' = "listed"
    /\ UNCHANGED nonNb

\* notebooks.py 221-229: the loop, and the return.
NFilter ==
    /\ n_pc = "listed"
    /\ n_ret' = search_loop(n_listing, n_query, n_max, <<>>)
    /\ n_pc' = "done"
    /\ UNCHANGED <<n_query, n_max, n_root, n_listing, n_requests, nonNb>>

\* The caller has taken the result.
NDone ==
    /\ n_pc = "done"
    /\ n_pc' = "idle"
    /\ UNCHANGED <<n_query, n_max, n_root, n_listing, n_requests, n_ret, nonNb>>

-----------------------------------------------------------------------------
(* Specifications.                                                         *)

HttpNext == HCall \/ HHeaders \/ HSession \/ HRequest \/ HFinish \/ HDone \/ HClose

\* Every part starts idle.
Init == HInit /\ BInit /\ AInit /\ TInit /\ QInit /\ CInit /\ NInit

SpecHttp == Init /\ [][HttpNext]_vars

BridgeNext ==
    \/ BCall
    \/ \E c \in Contexts :
          \/ BPrepare(c) \/ BGetLoop(c) \/ BSubmit(c) \/ BWorker(c)
          \/ BFutureResult(c) \/ BInnerExcept(c) \/ BOuterExcept(c)
    \/ BDone

SpecBridge == Init /\ [][BridgeNext]_vars

AuthNext ==
    \/ \E c \in Coroutines :
          AGet(c) \/ AWake(c) \/ ACheck(c) \/ AResponse(c) \/ ADone(c)
    \/ ATick

SpecAuth == Init /\ [][AuthNext]_vars

ThreadNext ==
    \E t \in Threads :
       \/ TCall(t) \/ TAcquire(t) \/ TTake(t) \/ TWoken(t) \/ TReadToken(t)
       \/ TTest(t) \/ TWriteToken(t) \/ TWriteExpiry(t) \/ TDone(t)

SpecThreads == Init /\ [][ThreadNext]_vars

SqlNext == QSubmit \/ QNoStatement \/ QWait \/ QRun \/ QPoll \/ QTimeout \/ QDone

SpecSql == Init /\ [][SqlNext]_vars

ContextNext == CSet \/ CProps \/ CComment \/ CReturn \/ CDone

SpecContext == Init /\ [][ContextNext]_vars

SearchNext == NList \/ NFilter \/ NDone

SpecSearch == Init /\ [][SearchNext]_vars

-----------------------------------------------------------------------------
(* Claims about the sync bridge (SpecBridge).                              *)

\* The exception the call met: of the preparation, or of the coroutine.
BRaised == b_outcome.prep.kind = "raise" \/ b_outcome.coro.kind = "raise"
BRaisedExc == IF b_outcome.prep.kind = "raise" THEN b_outcome.prep.exc ELSE b_outcome.coro.exc

C2_SameResultInBothContexts ==
    (\A c \in Contexts : b_pc[c] = "returned") => b_result["plain"] = b_result["in_loop"]

-----------------------------------------------------------------------------
(* Claims about ServicePrincipalAuth on one event loop (SpecAuth).         *)

\* A call of get_access_token that has given its caller a token.
AReturnedToken(c) == a_pc[c] = "done" /\ a_ret[c].kind = "token"

\* C3: on one event loop at most one token request is in flight, and none
\* is while the cached token is valid by more than the margin; as long as
\* the cached token stays valid by the margin the request that fetched it
\* is the last one sent; a caller that gets a token without a request of
\* its own gets the token of the last request sent, which is the request
\* it waited on or a later one.
C3_OneRequestPerValidToken ==
    /\ Cardinality({c \in Coroutines : a_pc[c] = "inflight"}) <= 1
    /\ \A c \in Coroutines :
          a_pc[c] = "inflight" =>
             /\ a_holder = c
             /\ ~(Truthy(a_token) /\ a_now < a_expires - 300)
    /\ \A n \in 1 .. a_requests :
          (a_token = Some(n) /\ a_now < a_expires - 300) => a_requests = n
    /\ \A c \in Coroutines :
          (AReturnedToken(c) /\ a_call[c].req = 0) =>
             /\ a_ret[c].token = Some(a_ret[c].at_request)
             /\ a_ret[c].at_request >= a_call[c].waited
             /\ a_ret[c].at_request > 0

\* C3 witness: two callers arrived while request 1 was in flight, and both
\* have been given token 1 without a request of their own.
C3_Witness ==
    \E c, d \in Coroutines :
       /\ c # d
       /\ \A e \in {c, d} :
             /\ AReturnedToken(e)
             /\ a_call[e].req = 0
             /\ a_call[e].waited = 1
             /\ a_ret[e].token = Some(1)
       /\ a_requests = 1

\* C4 (as claimed): every token get_access_token returns has, when it is
\* returned, more than 300 seconds left: now < expiry - 300.
C4_ReturnedTokenHasMargin ==
    \A c \in Coroutines : AReturnedToken(c) => a_ret[c].remaining > 300

\* C4 (amended): a token returned from the cache has more than 300 seconds
\* left when it is returned; a call that finds the cache closer to expiry
\* sends one request and returns the token of that request, whose time left
\* is the lifetime the identity provider answered (3600 without one), be it
\* above the margin or not.
C4_CachedTokenHasMargin ==
    \A c \in Coroutines :
       AReturnedToken(c) =>
          IF a_call[c].req = 0
          THEN a_ret[c].remaining > 300
          ELSE /\ a_ret[c].token = Some(a_call[c].req)
               /\ a_ret[c].remaining = a_call[c].answered
               /\ a_call[c].answered \in {100, 300, 500, 3600}

\* C4 witness: one call was given a fresh token with 100 seconds left, and
\* another call a cached token.
C4_Witness ==
    \E c, d \in Coroutines :
       /\ AReturnedToken(c) /\ a_call[c].req > 0 /\ a_ret[c].remaining = 100
       /\ AReturnedToken(d) /\ a_call[d].req = 0 /\ a_ret[d].remaining > 300

-----------------------------------------------------------------------------
(* Claims about ServicePrincipalAuth under worker threads (SpecThreads).   *)

\* C5 (as claimed): with worker threads that each run their own loop, at
\* most one token request is sent, the calls end with the same token (none
\* is left waiting, none raises), and no validity test reads a token
\* together with the expiry of before it was fetched.
C5_SafeAcrossThreads ==
    /\ t_requests <= 1
    /\ \A t \in Threads :
          /\ t_pc[t] # "hung"
          /\ t_ret[t].kind # "RuntimeError"
          /\ ~(t_seen[t].read /\ t_seen[t].expires = 0)
    /\ \A t, u \in Threads :
          (t_ret[t].kind = "token" /\ t_ret[u].kind = "token") =>
             t_ret[t].token = t_ret[u].token

-----------------------------------------------------------------------------
(* Claims about BaseDatabricksClient and the cluster tools (SpecHttp).     *)

\* A direct caller has its answer, and the API answered with status >= 400.
HApiErrorSeen ==
    /\ h_pc = "done"
    /\ h_call.api \in DirectApis
    /\ h_transport.kind = "response"
    /\ h_transport.status >= 400

\* C6 (as claimed): for a response with status >= 400 the exception that
\* reaches the caller of get/post/put/delete carries the HTTP status as
\* status_code, the decoded body as response_data and the body's message.
C6_ApiErrorCarriesStatusAndBody ==
    HApiErrorSeen =>
        /\ h_outcome.kind = "raise"
        /\ h_outcome.exc.status_code = Some(h_transport.status)
        /\ (JsonOk(h_transport.body) /\ h_transport.body.parsed.shape = "object") =>
              /\ h_outcome.exc.response_data = Some(h_transport.body.parsed)
              /\ ("message" \in DOMAIN h_transport.body.parsed.map =>
                    h_outcome.exc.message = h_transport.body.parsed.map["message"])

\* C7 (as claimed): HTTP 403 with body {"message": "forbidden"} on the
\* get-cluster request makes get_cluster_sync("abc") return exactly
\* {"status": "error", "error": "forbidden"}.
C7_ForbiddenSurfacesAsMessage ==
    ( /\ h_pc = "done"
      /\ h_call.api = "get_cluster"
      /\ h_call.cluster_id = "abc"
      /\ h_transport = Response(403, ForbiddenBody) )
    => h_result = Error("forbidden")

\* C8 (as claimed): a connection failure or timeout reaches the caller of
\* get/post/put/delete as an exception of another kind than a status >= 400
\* does: no exception class is used for both causes.
C8_TransportErrorHasOwnKind ==
    \A p \in h_seen : \A q \in h_seen : (p[1] # q[1]) => (p[2] # q[2])

-----------------------------------------------------------------------------
(* Claims about SQLClient (SpecSql).                                       *)

\* C9: a call whose POST was answered with a statement_id and the state
\* RUNNING has polled at least once by the time it returns; and once a poll
\* is answered SUCCEEDED, FAILED or CANCELED the call is over, no request
\* followed that poll, and its response is what the call returned.
C9_PollsUntilTerminal ==
    /\ (/\ q_pc # "polling"
        /\ q_submit.kind = "return"
        /\ q_submit.statement_id # ""
        /\ q_submit.state = "RUNNING") => q_polls >= 1
    /\ (/\ q_kind = "execute_statement"
        /\ q_last.kind = "return"
        /\ q_last.state \in {"SUCCEEDED", "FAILED", "CANCELED"}) =>
           /\ q_pc # "polling"
           /\ q_ret = q_last
           /\ q_sent = q_last.n
           /\ q_sent = q_polls + 1
           /\ q_final = 0

\* C9 witness: after a RUNNING submit, the third poll was answered FAILED
\* and the call returned it.
C9_Witness ==
    /\ q_pc = "done"
    /\ q_submit.state = "RUNNING"
    /\ q_polls = 3
    /\ q_last.state = "FAILED"
    /\ q_ret = q_last

\* C10 (as claimed): a wait that no poll ended within max_wait_time returns
\* the response of its latest poll, and does not raise.
C10_TimeoutReturnsLastPolled ==
    (q_pc # "polling" /\ q_final > 0) =>
       /\ q_ret.kind = "return"
       /\ q_ret = q_last

\* C11 (as claimed): get_cluster, start_cluster and terminate_cluster
\* without a cluster id, on the client or through the tool, fail with a
\* validation error and ask for no token and send no request.
C11_NoClusterIdNoNetwork ==
    (/\ h_pc # "idle"
     /\ h_call.api \in NeedsClusterId \cup ClientMethods
     /\ h_call.cluster_id = "") =>
        /\ h_tokens = 0
        /\ h_requests = 0
        /\ h_pc = "done" =>
              IF h_call.api \in ClientMethods
              THEN h_outcome.kind = "raise" /\ h_outcome.exc.cls = "ValueError"
              ELSE h_result = Error("cluster_id is required")

\* C12 (as claimed): create_job with a job_config that lacks a name or has
\* no task (no "tasks" key, or an empty list), and create_cluster and
\* create_warehouse with a required key missing, raise ValueError and ask
\* for no token and send no request.
C12_CreateValidatesBeforeNetwork ==
    (/\ h_pc # "idle"
     /\ h_call.api \in CreateMethods
     /\ \/ Range(required_fields(h_call.api)) \ h_call.config.keys # {}
        \/ h_call.api = "create_job" /\ h_call.config.ntasks = 0) =>
        /\ h_tokens = 0
        /\ h_requests = 0
        /\ h_outcome.kind = "raise"
        /\ h_outcome.exc.cls = "ValueError"

\* A caller of a client method has met a response with status < 400.
HSuccessSeen ==
    /\ h_pc \in {"finish", "done"}
    /\ h_call.api \in Direct
    /\ h_transport.kind = "response"
    /\ h_transport.status < 400

-----------------------------------------------------------------------------
(* More claims about the sync bridge (SpecBridge).                         *)

\* C14 (as claimed): get_table_metadata_sync returns a mapping with status
\* "error" whenever the DESCRIBE TABLE EXTENDED statement could not be
\* executed: no warehouse, an authentication failure, an API error.
C14_MetadataFailureIsError ==
    \A c \in Contexts :
       (/\ b_pc[c] = "returned"
        /\ b_wrapper = "get_table_metadata_sync"
        /\ \/ b_outcome.ddl.warehouses # "w1"
           \/ b_outcome.ddl.statement \in DdlFailures) =>
          b_result[c].status = "error"

\* C16 (as claimed): no wrapper calls asyncio.run on a thread whose event
\* loop is running; under a running loop the coroutine is driven once, by
\* the worker thread, and without one once, by the calling thread.
C16_NoRunUnderRunningLoop ==
    \A c \in Contexts :
       /\ ~b_nested[c]
       /\ (b_pc[c] = "returned" /\ b_outcome.prep.kind = "return") => b_runs[c] = 1

\* C15 (as claimed): wait_for_run_completion that is left by timeout returns
\* the last status its polls had fetched, and does not raise.
C15_RunTimeoutReturnsLastKnown ==
    (q_kind = "run" /\ q_pc = "done" /\ q_final > 0) =>
       /\ q_ret.kind = "return"
       /\ q_ret.state = q_last.state
       /\ q_ret.n = q_last.n

\* C17 (as claimed): in execute_statement, and in run_job followed by
\* wait_for_run_completion, no poll is made before the submit response is
\* there, and a call that returns has seen a terminal state, in the submit
\* response or in a poll, or the expiry of the maximum wait.
C17_ReturnsOnlyAfterTerminalOrTimeout ==
    q_kind \in {"execute_statement", "run"} =>
       /\ q_polls + q_final > 0 => q_submit.kind = "return"
       /\ (q_pc = "done" /\ q_ret.kind = "return") =>
             \/ q_final > 0
             \/ terminal(q_kind, q_ret.state)

\* C18: both wait loops are left after finitely many polls, whatever the
\* responses: a poll is only made while the clock, which every turn
\* advances by at least the sleep interval, is within max_wait_time of the
\* start, so a wait makes at most max_wait_time / interval + 1 polls, then
\* at most one more request, and while it polls the clock is at least
\* polls * interval past the start.
C18_WaitLoopsTerminate ==
    /\ q_polls >= 1 => (q_polls - 1) * sleep_interval(q_kind) <= q_max
    /\ q_pc = "polling" => q_now - q_start >= q_polls * sleep_interval(q_kind)
    /\ q_final <= 1
    /\ q_final = 1 => q_pc # "polling"

\* C18 witness: _wait_for_statement_completion whose polls never showed a
\* terminal state was left by timeout after several polls; and so was
\* wait_for_run_completion with max_wait_time 0, after its one poll.
C18_Witness ==
    \/ /\ q_kind = "statement_wait"
       /\ q_max = DEFAULT_MAX_WAIT
       /\ q_pc = "done"
       /\ q_final = 1
       /\ q_polls >= 3
       /\ q_last.state = "PENDING"
    \/ /\ q_kind = "run"
       /\ q_max = 0
       /\ q_pc = "done"
       /\ q_final = 1
       /\ q_polls = 1

\* C19: on every path, the timeout path included, the requests of a wait
\* are the submit and GETs of the status; nothing is sent to the cancel
\* endpoint of the statement or of the run.
C19_TimeoutNeverCancels ==
    /\ q_log \subseteq {submit_endpoint(q_kind), status_endpoint(q_kind)}
    /\ cancel_endpoint("run") \notin q_log
    /\ cancel_endpoint("execute_statement") \notin q_log
    /\ q_polls + q_final > 0 => status_endpoint(q_kind) \in q_log

\* C19 witness: a wait was left by timeout, having requested the submit
\* and the status only.
C19_Witness ==
    /\ q_pc = "done"
    /\ q_final = 1
    /\ q_kind \in {"execute_statement", "run"}
    /\ q_log = {submit_endpoint(q_kind), status_endpoint(q_kind)}

\* C20 (as claimed): the result of a bridged cluster tool call does not
\* depend on the bridged calls that completed before it: the call sends its
\* request, and its result is what a first call returns for the same
\* headers and the same remote response.
C20_ResultIndependentOfEarlierCalls ==
    (/\ h_pc = "done"
     /\ h_call.api \in ClusterTools
     /\ ~(h_call.api \in NeedsClusterId /\ h_call.cluster_id = "")
     /\ h_headers.kind = "return") =>
        /\ h_requests = 1
        /\ h_transport \in Transports
        /\ h_result = _call_mcp_tool(h_call.api, h_call.cluster_id,
                                     _make_request(h_headers, h_transport))

\* C21 (as claimed): once the dispatch of a cluster tool has returned, with
\* success or with an error, the session of clusters_client is closed (or
\* was never made): no open session of a loop that is gone is left behind.
C21_SessionClosedAfterDispatch ==
    (h_pc \in {"done", "idle"} /\ h_call.api \in ClusterTools) =>
        h_session \in {"none", "closed"}

\* C22: a call sends a request only after get_authenticated_headers has
\* returned within that call, and the request carries the Authorization
\* header it returned; when the headers could not be had nothing is sent and
\* the caller of _make_request gets that failure as it was raised, not a
\* DatabricksAPIError.
C22_RequestCarriesAcquiredToken ==
    /\ h_requests > 0 =>
          /\ h_tokens = 1
          /\ h_headers.kind = "return"
          /\ h_sent = h_headers
          /\ "Authorization" \in DOMAIN h_sent.value.map
    /\ (h_headers.kind = "raise" /\ h_pc \in {"finish", "done"}) =>
          /\ h_requests = 0
          /\ h_sent = Pending
          /\ h_outcome = h_headers
          /\ h_outcome.exc.cls # "DatabricksAPIError"

\* C22 witness: a call whose token acquisition failed is over, and the
\* caller holds the authentication failure.
C22_Witness ==
    /\ h_pc = "done"
    /\ h_call.api \in DirectApis
    /\ h_tokens = 1
    /\ h_outcome = Raise(AuthFailure)

C24_FailedAcquisitionKeepsCache ==
    [][\A c \in Coroutines :
          /\ (a_pc[c] = "inflight" /\ a_pc'[c] = "done" /\ a_call'[c].failed) =>
                /\ a_ret'[c].kind = "raise"
                /\ a_token' = a_token
                /\ a_expires' = a_expires
                /\ a_holder' # c
                /\ a_holder' = (IF a_waiters = <<>> THEN 0 ELSE Head(a_waiters))
          /\ a_pc'[c] \in {"done", "idle"} =>
                /\ a_holder' # c
                /\ \A i \in DOMAIN a_waiters' : a_waiters'[i] # c]_vars

\* C24 witness: the second token request failed; its caller got the
\* exception, the token of the first request is still cached, the lock is
\* free, and a call that came later is not blocked.
C24_Witness ==
    \E c, d \in Coroutines :
       /\ c # d
       /\ a_pc[c] = "done"
       /\ a_call[c].failed
       /\ a_call[c].req = 2
       /\ a_ret[c].kind = "raise"
       /\ a_token = Some(1)
       /\ a_pc[d] = "locked"

\* C25: the status of the execute_sql result tells only whether the
\* exchange raised: it is "success", with the statement response as data,
\* whenever execute_statement returned, whatever the state of the statement
\* (FAILED, CANCELED, still not terminal after the wait); it is "error" only
\* when the statement was missing, and then nothing was sent, or when a
\* request raised.
C25_StatusTellsOnlyWhetherRaised ==
    (q_pc = "done" /\ q_kind = "execute_statement") =>
       /\ q_result.status \in {"success", "error"}
       /\ q_ret.kind = "return" =>
             q_result = Success(Obj([statement_id |-> q_ret.statement_id,
                                     state |-> q_ret.state]))
       /\ q_result.status = "error" =>
             \/ q_ret.kind = "raise"
             \/ q_sent = 0 /\ q_result = Error("statement is required")

\* C25 witness: the wait ran into its ceiling, the statement is still
\* RUNNING, and the tool reports success.
C25_Witness ==
    /\ q_pc = "done"
    /\ q_kind = "execute_statement"
    /\ q_final = 1
    /\ q_ret.kind = "return"
    /\ q_ret.state = "RUNNING"
    /\ q_result.status = "success"

\* C26: execute_statement polls only when the submit response has a
\* statement_id and the state RUNNING; for every other submit response it
\* makes no further request and returns the submit response as it is.
C26_PollsOnlyWhenRunning ==
    (q_kind = "execute_statement" /\ q_submit.kind = "return") =>
       IF q_submit.statement_id # "" /\ q_submit.state = "RUNNING"
       THEN q_pc = "polling" \/ q_polls >= 1
       ELSE /\ q_pc # "polling"
            /\ q_polls = 0
            /\ q_final = 0
            /\ q_sent = 1
            /\ q_ret = q_submit

\* C26 witness: a submit answered PENDING was returned without a poll.
C26_Witness ==
    /\ q_pc = "done"
    /\ q_kind = "execute_statement"
    /\ q_submit.kind = "return"
    /\ q_submit.statement_id = "s1"
    /\ q_submit.state = "PENDING"
    /\ q_sent = 1
    /\ q_ret = q_submit

-----------------------------------------------------------------------------
(* Claims about set_table_context and execute_ddl (SpecContext).           *)

C28_FirstWarehouseAfterListing ==
    c_call # <<>> =>
       /\ c_call[1].op = "list_warehouses"
       /\ Len(c_call) <= 2
       /\ Len(c_call) = 2 =>
             /\ c_call[2].op = "execute_statement"
             /\ c_list.error = ""
             /\ c_list.ids # <<>>
             /\ c_call[2].warehouse = c_list.ids[1]
       /\ (c_list.error = "" /\ (~c_list.has_key \/ c_list.ids = <<>>)) =>
             /\ Len(c_call) = 1
             /\ c_last = Error("No warehouses available for DDL operations")
       /\ c_last.status \in {"success", "error"}

\* C28 witness: of two warehouses listed the statement went to the first;
\* the statement raised and execute_ddl returned an error mapping.
C28_Witness ==
    /\ c_list.ids = <<"w2", "w1">>
    /\ Len(c_call) = 2
    /\ c_call[2].warehouse = "w2"
    /\ c_last.status = "error"

-----------------------------------------------------------------------------
(* Claims about NotebooksClient.search_notebooks (SpecSearch).             *)

\* C29 (as claimed): every notebook at any depth below the search root
\* whose path contains the query, whatever the case, can be returned: a
\* result that stayed below max_results holds every one of them.
C29_SearchesBelowRootAtAnyDepth ==
    (n_pc = "done" /\ Len(n_ret) < n_max) =>
       \A o \in WorkspaceObjects :
          (/\ matches(o, n_query)
           /\ Len(o.path) > Len(n_root)
           /\ SubSeq(o.path, 1, Len(n_root)) = n_root) =>
              o \in Range(n_ret)

\* C30 (as claimed): whatever the listing and max_results, zero and
\* negative values included, the result has at most max_results objects
\* (none for a negative value), each a notebook whose path contains the
\* query whatever the case, in the order of the listing, and one listing
\* request was sent.
C30_AtMostMaxResultsInListingOrder ==
    n_pc = "done" =>
       /\ Len(n_ret) <= (IF n_max < 0 THEN 0 ELSE n_max)
       /\ \A i \in DOMAIN n_ret : matches(n_ret[i], n_query)
       /\ \A i, j \in DOMAIN n_ret :
             i < j => \E a, b \in DOMAIN n_listing :
                         a < b /\ n_listing[a] = n_ret[i] /\ n_listing[b] = n_ret[j]
       /\ \A i \in DOMAIN n_ret : n_ret[i] \in Range(n_listing)
       /\ n_requests = 1

=============================================================================
